---- MODULE Spec2Model ----
(***************************************************************************)
(* Model of the httparse skeleton in src/src/lib.rs: the two skip          *)
(* primitives (skip_empty_lines, skip_spaces) running over a byte cursor,  *)
(* the Request value (Request::new, Request::parse) and a caller that      *)
(* receives a message one byte at a time and re-invokes the operations     *)
(* on the grown buffer.                                                    *)
(*                                                                         *)
(* The byte cursor (crate::iter::Bytes), the error enumeration             *)
(* (error::Error) and the expect! macro live in modules that lib.rs only   *)
(* declares (`pub mod iter; mod error; pub mod macros;`); they are         *)
(* modelled from section 4.1 / 4.4 of the specification.                   *)
(* Init is the state after Request::new on a caller's slice of c empty     *)
(* header records, with an empty buffer and a cursor at byte zero.         *)
(***************************************************************************)
EXTENDS Naturals, Integers, Sequences, FiniteSets, TLC

VARIABLES
    wire,     \* the whole message the transport will deliver (an input)
    buf,      \* the caller's buffer: the prefix of wire received so far
    pos,      \* Bytes: cursor position, an index into buf (0-based)
    start,    \* Bytes: slice mark
    pc,       \* "idle", or the scanning function whose loop is running
    from,     \* cursor position at which the running call was started
    result,   \* outcome of the last call that returned
    method,   \* Request.method  : Option, <<>> is None, <<x>> is Some(x)
    path,     \* Request.path    : Option
    version,  \* Request.version : Option
    headers,  \* Request.headers : the caller's slice of Header records
    class     \* the last byte classified with the answers of the four
              \* classification functions: <<>> before any, else <<record>>

vars == <<wire, buf, pos, start, pc, from, result, method, path, version, headers,
          class>>

----------------------------------------------------------------------------
(* Bytes the scanners compare against.                                     *)
CR == 13
LF == 10
SP == 32
TAB == 9

(* Bounds of the model.                                                    *)
MaxLen == 3       \* longest message built from Alphabet
MaxFrom == 1      \* largest cursor position a scan is started from
MaxCap == 1       \* largest header-collection capacity

(* Bytes of the bounded messages: the two line-ending bytes, the space,    *)
(* the tab and one ordinary byte ('G').                                    *)
Alphabet == {CR, LF, SP, TAB, 71}

RECURSIVE SeqsUpTo(_)
SeqsUpTo(n) ==
    IF n = 0 THEN {<<>>}
    ELSE LET S == SeqsUpTo(n - 1)
         IN  S \cup {Append(s, b) : s \in {t \in S : Len(t) = n - 1}, b \in Alphabet}

(* Concrete messages of the specification and of the Request doc comment.  *)
ReqPlain == <<71,69,84,32,47,32,72,84,84,80,47,49,46,49,13,10,13,10>>
            \* "GET / HTTP/1.1\r\n\r\n"
ReqOneHeader == <<71,69,84,32,47,32,72,84,84,80,47,49,46,49,13,10,
                  72,58,32,120,13,10,13,10>>
            \* "GET / HTTP/1.1\r\nH: x\r\n\r\n"
ReqTwoHeaders == <<71,69,84,32,47,32,72,84,84,80,47,49,46,48,13,10,
                   72,58,32,120,13,10,65,58,121,13,10,13,10>>
            \* "GET / HTTP/1.0\r\nH: x\r\nA:y\r\n\r\n"
ReqDocExample == <<71,69,84,32,47,52,48,52,32,72,84,84,80,47,49,46,49,13,10,
                   72,111,115,116,58>>
            \* "GET /404 HTTP/1.1\r\nHost:"
ReqBadMethod == <<71,1,84,32,47,32,72,84,84,80,47,49,46,49,13,10,13,10>>
            \* "G\x01T / HTTP/1.1\r\n\r\n"
ReqEmptyMethod == <<32,47,32,72,84,84,80,47,49,46,49,13,10,13,10>>
            \* " / HTTP/1.1\r\n\r\n"
ReqBadVersion == <<71,69,84,32,47,32,72,84,84,80,47,50,46,48,13,10,13,10>>
            \* "GET / HTTP/2.0\r\n\r\n"
ReqBadHeader == <<71,69,84,32,47,32,72,84,84,80,47,49,46,49,13,10,
                  72,32,58,120,13,10,13,10>>
            \* "GET / HTTP/1.1\r\nH :x\r\n\r\n"

ReqHighByteValue == <<71,69,84,32,47,32,72,84,84,80,47,49,46,49,13,10,
                      72,58,32,233,13,10,13,10>>
            \* "GET / HTTP/1.1\r\nH: \xe9\r\n\r\n"
ReqCtlValue == <<71,69,84,32,47,32,72,84,84,80,47,49,46,49,13,10,
                 72,58,32,1,13,10,13,10>>
            \* "GET / HTTP/1.1\r\nH: \x01\r\n\r\n"
ReqBareLF == <<71,69,84,32,47,32,72,84,84,80,47,49,46,49,10,10>>
            \* "GET / HTTP/1.1\n\n"

WellFormedRequests == {ReqPlain, ReqOneHeader, ReqTwoHeaders}
Samples == WellFormedRequests \cup
           {ReqDocExample, ReqBadMethod, ReqEmptyMethod, ReqBadVersion, ReqBadHeader,
            ReqHighByteValue, ReqCtlValue, ReqBareLF}

Inputs == SeqsUpTo(MaxLen) \cup Samples

IsPrefix(s, t) == Len(s) <= Len(t) /\ SubSeq(t, 1, Len(s)) = s

----------------------------------------------------------------------------
(* crate::iter::Bytes                                                      *)

(* peek(): the byte at the cursor, or None at end of buffer.               *)
Peek(b, p) == IF p < Len(b) THEN <<b[p + 1]>> ELSE <<>>

(* bump(): advance by one.                                                 *)
Bump(p) == p + 1

(* next(): the byte at the cursor and the cursor past it, or None.         *)
Next_(b, p) == IF p < Len(b) THEN [byte |-> <<b[p + 1]>>, pos |-> p + 1]
                             ELSE [byte |-> <<>>, pos |-> p]

(* slice(): the range since the mark is returned and the mark moves to     *)
(* the cursor.                                                             *)
Slice(p) == p

----------------------------------------------------------------------------
(* Token classification tables: byte_map!(pattern) is the 256-entry table  *)
(* whose entry b tells whether b matches the pattern.                      *)
Byte == 0..255

(* b'A'..=b'Z' | b'a'..=b'z' | b'0'..=b'9' | b'!' | b'#' | b'$' | b'%' |   *)
(* b'&' | b'\'' | b'*' | b'+' | b'-' | b'.' | b'^' | b'_' | b'`' | b'|' |  *)
(* b'~'                                                                    *)
(* A plausible slip: the uppercase range left to the direct comparison of  *)
(* is_method_token and dropped from the table.                             *)
TOKEN_MAP_NoUpper ==
    [b \in Byte |-> \/ b \in 97..122 \/ b \in 48..57
                    \/ b \in {33, 35, 36, 37, 38, 39, 42, 43,
                              45, 46, 94, 95, 96, 124, 126}]

TOKEN_MAP ==
    [b \in Byte |-> \/ b \in 65..90 \/ b \in 97..122 \/ b \in 48..57
                    \/ b \in {33, 35, 36, 37, 38, 39, 42, 43,
                              45, 46, 94, 95, 96, 124, 126}]

(* A plausible slip: the range started at the space, as the header-value   *)
(* range is.                                                               *)
URI_MAP_FromSpace == [b \in Byte |-> b \in SP..126 \/ b \in 128..255]

(* b'!'..=0x7e | 0x80..=0xFF                                               *)
URI_MAP == [b \in Byte |-> b \in 33..126 \/ b \in 128..255]

(* b'\t' | b' '..=0x7e | 0x80..=0xFF                                       *)
HEADER_VALUE_MAP == [b \in Byte |-> b = TAB \/ b \in SP..126 \/ b \in 128..255]

(* match b { b'A'..=b'Z' => true, _ => TOKEN_MAP[b as usize] }             *)
is_method_token(b) == IF b \in 65..90 THEN TRUE ELSE TOKEN_MAP[b]

is_uri_token(b) == URI_MAP[b]

is_header_name_token(b) == TOKEN_MAP[b]

is_header_value_token(b) == HEADER_VALUE_MAP[b]

----------------------------------------------------------------------------
(* Outcomes: Result<T> = result::Result<Status<T>, Error>                  *)
Complete == "Complete"
Partial == "Partial"
Err == "Err"
Unit == "Unit"          \* a function that returns ()
NewLine == "NewLine"    \* Error::NewLine
NoReason == "none"

NoResult == [op |-> "none", from |-> 0, status |-> "none", reason |-> NoReason,
             pos |-> 0, start |-> 0, len |-> 0]

Outcome(op, f, st, rsn, p, s, n) ==
    [op |-> op, from |-> f, status |-> st, reason |-> rsn, pos |-> p, start |-> s,
     len |-> n]

(* pub const EMPTY_HEADER                                                  *)
EMPTY_HEADER == [name |-> <<>>, value |-> <<>>]

----------------------------------------------------------------------------
Init ==
    /\ wire \in Inputs
    /\ buf = <<>>
    /\ pos = 0
    /\ start = 0
    /\ pc = "idle"
    /\ from = 0
    /\ result = NoResult
    /\ method = <<>>
    /\ path = <<>>
    /\ version = <<>>
    /\ headers \in {[i \in 1..c |-> EMPTY_HEADER] : c \in 0..MaxCap}
    /\ class = <<>>

ReqVars == <<method, path, version, headers>>

(* The transport appends the next byte of the message to the buffer.       *)
Receive ==
    /\ pc = "idle"
    /\ Len(buf) < Len(wire)
    /\ buf' = SubSeq(wire, 1, Len(buf) + 1)
    /\ UNCHANGED <<class, wire, pos, start, pc, from, result, ReqVars>>

(* A return from the running scan.                                         *)
Return(st, rsn, p, s) ==
    /\ pc' = "idle"
    /\ pos' = p
    /\ start' = s
    /\ result' = Outcome(pc, from, st, rsn, p, s, Len(buf))

Continue(p) ==
    /\ pos' = p
    /\ UNCHANGED <<start, pc, result>>

----------------------------------------------------------------------------
(* skip_empty_lines                                                        *)

CallSkipEmptyLines(p, s) ==
    /\ pc = "idle"
    /\ p <= Len(buf) /\ s <= p
    /\ pc' = "skip_empty_lines"
    /\ pos' = p
    /\ start' = s
    /\ from' = p
    /\ UNCHANGED <<class, wire, buf, result, ReqVars>>

(* A plausible slip: the byte after the `\r` skipped with a second bump()  *)
(* in place of the checked next().                                         *)
SkipEmptyLinesCR_DoubleBump ==
    /\ pc = "skip_empty_lines"
    /\ Peek(buf, pos) = <<CR>>
    /\ Continue(Bump(Bump(pos)))
    /\ UNCHANGED <<class, wire, buf, from, ReqVars>>

(* A plausible slip: the `\r` skipped without the check of the next byte. *)
SkipEmptyLinesCR_NoExpect ==
    /\ pc = "skip_empty_lines"
    /\ Peek(buf, pos) = <<CR>>
    /\ Continue(Bump(pos))
    /\ UNCHANGED <<class, wire, buf, from, ReqVars>>

(* Some(b'\r') => { bump(); expect!(bytes.next() == b'\n' => Err(NewLine)) } *)
(* A plausible slip: end of buffer after the `\r` treated as a mismatch.   *)
SkipEmptyLinesCR_EofIsError ==
    /\ pc = "skip_empty_lines"
    /\ Peek(buf, pos) = <<CR>>
    /\ LET n == Next_(buf, Bump(pos))
       IN  IF n.byte = <<LF>> THEN Continue(n.pos)
           ELSE Return(Err, NewLine, n.pos, start)
    /\ UNCHANGED <<class, wire, buf, from, ReqVars>>

SkipEmptyLinesCR ==
    /\ pc = "skip_empty_lines"
    /\ Peek(buf, pos) = <<CR>>
    /\ LET n == Next_(buf, Bump(pos))
       IN  CASE n.byte = <<>>   -> Return(Partial, NoReason, n.pos, start)
             [] n.byte = <<LF>> -> Continue(n.pos)
             [] OTHER           -> Return(Err, NewLine, n.pos, start)
    /\ UNCHANGED <<class, wire, buf, from, ReqVars>>

(* Some(b'\n') => { bump() }                                               *)
SkipEmptyLinesLF ==
    /\ pc = "skip_empty_lines"
    /\ Peek(buf, pos) = <<LF>>
    /\ Continue(Bump(pos))
    /\ UNCHANGED <<class, wire, buf, from, ReqVars>>

(* A plausible slip: Complete returned without bytes.slice().               *)
SkipEmptyLinesOther_NoSlice ==
    /\ pc = "skip_empty_lines"
    /\ Peek(buf, pos) # <<>>
    /\ Peek(buf, pos) \notin {<<CR>>, <<LF>>}
    /\ Return(Complete, NoReason, pos, start)
    /\ UNCHANGED <<class, wire, buf, from, ReqVars>>

(* Some(..) => { bytes.slice(); return Ok(Status::Complete(())) }          *)
SkipEmptyLinesOther ==
    /\ pc = "skip_empty_lines"
    /\ Peek(buf, pos) # <<>>
    /\ Peek(buf, pos) \notin {<<CR>>, <<LF>>}
    /\ Return(Complete, NoReason, pos, Slice(pos))
    /\ UNCHANGED <<class, wire, buf, from, ReqVars>>

(* A plausible slip: end of buffer taken as the end of the blank lines.    *)
SkipEmptyLinesNone_Complete ==
    /\ pc = "skip_empty_lines"
    /\ Peek(buf, pos) = <<>>
    /\ Return(Complete, NoReason, pos, Slice(pos))
    /\ UNCHANGED <<class, wire, buf, from, ReqVars>>

(* None => return Ok(Status::Partial)                                      *)
SkipEmptyLinesNone ==
    /\ pc = "skip_empty_lines"
    /\ Peek(buf, pos) = <<>>
    /\ Return(Partial, NoReason, pos, start)
    /\ UNCHANGED <<class, wire, buf, from, ReqVars>>

----------------------------------------------------------------------------
(* skip_spaces                                                             *)

CallSkipSpaces(p, s) ==
    /\ pc = "idle"
    /\ p <= Len(buf) /\ s <= p
    /\ pc' = "skip_spaces"
    /\ pos' = p
    /\ start' = s
    /\ from' = p
    /\ UNCHANGED <<class, wire, buf, result, ReqVars>>

(* A plausible slip: the tab skipped as horizontal space too.              *)
SkipSpacesSpace_OrTab ==
    /\ pc = "skip_spaces"
    /\ Peek(buf, pos) \in {<<SP>>, <<TAB>>}
    /\ Continue(Bump(pos))
    /\ UNCHANGED <<class, wire, buf, from, ReqVars>>

(* Some(b' ') => { bump() }                                                *)
SkipSpacesSpace ==
    /\ pc = "skip_spaces"
    /\ Peek(buf, pos) = <<SP>>
    /\ Continue(Bump(pos))
    /\ UNCHANGED <<class, wire, buf, from, ReqVars>>

(* Some(..) => { bytes.slice(); return Ok(Status::Complete(())) }          *)
SkipSpacesOther ==
    /\ pc = "skip_spaces"
    /\ Peek(buf, pos) # <<>>
    /\ Peek(buf, pos) # <<SP>>
    /\ Return(Complete, NoReason, pos, Slice(pos))
    /\ UNCHANGED <<class, wire, buf, from, ReqVars>>

(* None => return Ok(Status::Partial)                                      *)
SkipSpacesNone ==
    /\ pc = "skip_spaces"
    /\ Peek(buf, pos) = <<>>
    /\ Return(Partial, NoReason, pos, start)
    /\ UNCHANGED <<class, wire, buf, from, ReqVars>>

----------------------------------------------------------------------------
(* Request                                                                 *)

(* Request::new(headers): the three optional fields are None and the       *)
(* caller's slice (c EMPTY_HEADER records) is taken as it is.              *)
RequestNew(c) ==
    /\ pc = "idle"
    /\ method' = <<>>
    /\ path' = <<>>
    /\ version' = <<>>
    /\ headers' = [i \in 1..c |-> EMPTY_HEADER]
    /\ UNCHANGED <<class, wire, buf, pos, start, pc, from, result>>

(* fn parse(&mut self) { }: takes no buffer, assigns nothing, returns ().  *)
RequestParse ==
    /\ pc = "idle"
    /\ result' = Outcome("parse", 0, Unit, NoReason, 0, 0, Len(buf))
    /\ UNCHANGED <<class, wire, buf, pos, start, pc, from, ReqVars>>

----------------------------------------------------------------------------
Next ==
    \/ Receive
    \/ \E p \in 0..MaxFrom : \E s \in 0..p : CallSkipEmptyLines(p, s)
    \/ SkipEmptyLinesCR
    \/ SkipEmptyLinesLF
    \/ SkipEmptyLinesOther
    \/ SkipEmptyLinesNone
    \/ \E p \in 0..MaxFrom : \E s \in 0..p : CallSkipSpaces(p, s)
    \/ SkipSpacesSpace
    \/ SkipSpacesOther
    \/ SkipSpacesNone
    \/ \E c \in 0..MaxCap : RequestNew(c)
    \/ RequestParse

Spec == Init /\ [][Next]_vars

(* One iteration of the loop of a running scan.                            *)
ScanStep ==
    \/ SkipEmptyLinesCR
    \/ SkipEmptyLinesLF
    \/ SkipEmptyLinesOther
    \/ SkipEmptyLinesNone
    \/ SkipSpacesSpace
    \/ SkipSpacesOther
    \/ SkipSpacesNone

(* The calls on the bounded messages, for one Request and a slice mark at  *)
(* byte zero.  The engine is synchronous: a call that has started runs on  *)
(* until it returns.                                                       *)
LiveInit ==
    /\ Init
    /\ wire \in SeqsUpTo(MaxLen)
    /\ headers = <<>>

LiveNext ==
    \/ Receive
    \/ \E p \in 0..MaxFrom : CallSkipEmptyLines(p, 0)
    \/ \E p \in 0..MaxFrom : CallSkipSpaces(p, 0)
    \/ ScanStep
    \/ RequestParse

SpecLive == LiveInit /\ [][LiveNext]_vars /\ WF_vars(ScanStep)

----------------------------------------------------------------------------
(* The classification functions applied to every byte value.               *)

Classify(b) ==
    /\ pc = "idle"
    /\ class' = << [byte   |-> b,
                    method |-> is_method_token(b),
                    uri    |-> is_uri_token(b),
                    name   |-> is_header_name_token(b),
                    value  |-> is_header_value_token(b)] >>
    /\ UNCHANGED <<wire, buf, pos, start, pc, from, result, ReqVars>>

TablesInit ==
    /\ wire = <<>>
    /\ buf = <<>>
    /\ pos = 0
    /\ start = 0
    /\ pc = "idle"
    /\ from = 0
    /\ result = NoResult
    /\ method = <<>>
    /\ path = <<>>
    /\ version = <<>>
    /\ headers = <<>>
    /\ class = <<>>

TablesNext == \E b \in Byte : Classify(b)

SpecTables == TablesInit /\ [][TablesNext]_vars

TypeOK ==
    /\ wire \in Inputs
    /\ IsPrefix(buf, wire)
    /\ pos \in 0..Len(buf)
    /\ start \in 0..pos
    /\ pc \in {"idle", "skip_empty_lines", "skip_spaces"}
    /\ result.status \in {"none", Complete, Partial, Err, Unit}

----------------------------------------------------------------------------
(* Vocabulary of the properties.                                           *)

(* The buffer the last returned call ran on.                               *)
ScannedBuf == SubSeq(buf, 1, result.len)

(* The bytes the last returned scan consumed.                              *)
Consumed == SubSeq(buf, result.from + 1, result.pos)

Returned(op) == pc = "idle" /\ result.op = op

(* s is a prefix of a sequence of blank lines, each `\n` or `\r\n`.        *)
RECURSIVE ValidBlankPrefix(_)
ValidBlankPrefix(s) ==
    IF s = <<>> THEN TRUE
    ELSE IF s[1] = LF THEN ValidBlankPrefix(Tail(s))
    ELSE IF s[1] = CR
         THEN Len(s) = 1 \/ (s[2] = LF /\ ValidBlankPrefix(Tail(Tail(s))))
    ELSE FALSE

(* s starts with blank lines followed by a `\r` whose next byte is not `\n`. *)
RECURSIVE HasBadLineEnding(_)
HasBadLineEnding(s) ==
    IF s = <<>> THEN FALSE
    ELSE IF s[1] = LF THEN HasBadLineEnding(Tail(s))
    ELSE IF s[1] = CR
         THEN Len(s) > 1 /\ (s[2] # LF \/ HasBadLineEnding(Tail(Tail(s))))
    ELSE FALSE

AllSpaces(s) == \A i \in 1..Len(s) : s[i] = SP

(* Failure reasons of the request parse, as section 6 names them.          *)
InvalidMethod == "invalid method"
InvalidVersion == "invalid version"
TooManyHeaders == "too many headers"

(* What the sample messages hold.                                          *)
GET == <<71, 69, 84>>
Slash == <<47>>
RequestLineLen == Len(ReqPlain) - 2       \* "GET / HTTP/1.x\r\n"
ExpectedVersion(w) == IF w = ReqTwoHeaders THEN 0 ELSE 1
ExpectedHeaders(w) ==
    IF w = ReqOneHeader THEN << [name |-> <<72>>, value |-> <<120>>] >>
    ELSE IF w = ReqTwoHeaders
         THEN << [name |-> <<72>>, value |-> <<120>>],
                 [name |-> <<65>>, value |-> <<121>>] >>
    ELSE <<>>

(* parse was last called with the whole message w in the buffer.           *)
ParsedWhole(w) == Returned("parse") /\ wire = w /\ result.len = Len(w)

----------------------------------------------------------------------------
(* C1: for every well-formed request R and every cut 0 < k < len(R), the   *)
(* request parse of the first k bytes of R returns Partial: never a        *)
(* failure and never Complete.                                             *)
C1_PrefixIsPartial ==
    (Returned("parse") /\ wire \in WellFormedRequests
        /\ 0 < result.len /\ result.len < Len(wire))
    => result.status = Partial

(* C3: a scan that returns Partial consumed only a valid prefix of its     *)
(* grammar, and a buffer holding a byte that is invalid at its position    *)
(* gives a definitive failure; for the two skip scans ...                  *)
C3_SkipScans ==
    /\ (Returned("skip_empty_lines") /\ result.status = Partial)
       => (ValidBlankPrefix(Consumed) /\ result.pos = result.len)
    /\ (Returned("skip_empty_lines")
           /\ HasBadLineEnding(SubSeq(ScannedBuf, result.from + 1, result.len)))
       => result.status = Err
    /\ (Returned("skip_spaces") /\ result.status = Partial)
       => (AllSpaces(Consumed) /\ result.pos = result.len)

(* ... and for the request parse (the message with the control byte in     *)
(* its method is the invalid one).                                         *)
C3_Parse ==
    /\ (Returned("parse") /\ result.status = Partial)
       => \E w \in WellFormedRequests : IsPrefix(ScannedBuf, w)
    /\ (Returned("parse") /\ wire = ReqBadMethod /\ result.len >= 2)
       => result.status = Err

(* C3, all three scanning operations.                                      *)
C3_PartialOnlyOnValidPrefix == C3_SkipScans /\ C3_Parse

(* A skip scan has returned Partial after consuming a `\r`, and one has    *)
(* failed on a bad line ending.                                            *)
C3_SkipScansWitness ==
    /\ Returned("skip_empty_lines")
    /\ result.status = Partial
    /\ result.pos > result.from
    /\ buf[result.pos] = CR

(* C4: a definitive failure is permanent as the buffer grows: once an      *)
(* operation started at some position has failed with reason r, every      *)
(* later run of the same operation from the same position on the grown     *)
(* buffer fails with reason r again.                                       *)
C4_FailureIsPermanent ==
    [][ (result.status = Err /\ result'.op = result.op
            /\ result'.from = result.from)
        => (result'.status = Err /\ result'.reason = result.reason) ]_vars

(* A failed scan whose buffer reaches beyond the byte that made it fail:   *)
(* the scan of the shorter buffer had failed already.                      *)
C4_Witness ==
    /\ Returned("skip_empty_lines")
    /\ result.status = Err
    /\ result.reason = NewLine
    /\ result.from = 0
    /\ result.pos < result.len

(* C5: with a header collection of capacity N, a well-formed message of    *)
(* at most N headers parses to Complete with all its headers recorded in   *)
(* order, and one of N+1 headers fails with too-many-headers, the first N  *)
(* headers being recorded.                                                 *)
C5_CapacityIsExact ==
    \A w \in WellFormedRequests :
        ParsedWhole(w) =>
            LET N == Len(headers)
                H == ExpectedHeaders(w)
            IN  IF Len(H) <= N
                THEN /\ result.status = Complete
                     /\ SubSeq(headers, 1, Len(H)) = H
                ELSE /\ result.status = Err
                     /\ result.reason = TooManyHeaders
                     /\ headers = SubSeq(H, 1, N)

(* C6: Complete(n) has n <= len(B) with method, path and version           *)
(* populated, and on a buffer that is exactly one well-formed request the  *)
(* parse returns Complete(len(B)).                                         *)
C6_CompleteCountsConsumed ==
    /\ (Returned("parse") /\ result.status = Complete)
       => /\ result.pos <= result.len
          /\ method # <<>> /\ path # <<>> /\ version # <<>>
    /\ \A w \in WellFormedRequests :
          (ParsedWhole(w) /\ Len(ExpectedHeaders(w)) <= Len(headers))
          => (result.status = Complete /\ result.pos = Len(w))

(* C7: the populated fields of a Request are a left-to-right prefix of     *)
(* (method, path, version, headers), and a parse of a buffer that ends in  *)
(* the header block returns Partial with method, path and version set.     *)
C7_FieldsFilledLeftToRight ==
    /\ path # <<>> => method # <<>>
    /\ version # <<>> => path # <<>>
    /\ (\E i \in 1..Len(headers) : headers[i] # EMPTY_HEADER) => version # <<>>
    /\ ParsedWhole(ReqDocExample)
       => /\ result.status = Partial
          /\ method # <<>> /\ path # <<>> /\ version # <<>>

(* C8: a failure raised in the header loop leaves method, path and         *)
(* version populated with the values of the request line, and no header    *)
(* of the failing stage recorded.                                          *)
C8_FailureKeepsEarlierFields ==
    ParsedWhole(ReqBadHeader)
    => /\ result.status = Err
       /\ method = <<GET>> /\ path = <<Slash>> /\ version = <<1>>
       /\ \A i \in 1..Len(headers) : headers[i] = EMPTY_HEADER

(* C9: the version stage records the minor digit of `HTTP/1.0` or          *)
(* `HTTP/1.1`, fails with invalid-version on `HTTP/2.0` leaving version    *)
(* unset, and returns Partial on a buffer that ends inside the literal.    *)
C9_VersionStage ==
    /\ \A w \in WellFormedRequests :
          (Returned("parse") /\ wire = w /\ result.len >= RequestLineLen)
          => version = <<ExpectedVersion(w)>>
    /\ (Returned("parse") /\ wire = ReqBadVersion /\ result.len >= 12)
       => (result.status = Err /\ result.reason = InvalidVersion /\ version = <<>>)
    /\ (Returned("parse") /\ wire = ReqPlain /\ result.len \in 7..13)
       => (result.status = Partial /\ version = <<>>)

(* C10: a non-empty run of method-token bytes ended by a space is the      *)
(* method; an empty method, or a run ended by another byte, fails with     *)
(* invalid-method and leaves method unset.                                 *)
C10_MethodStage ==
    /\ \A w \in WellFormedRequests :
          ParsedWhole(w) /\ Len(ExpectedHeaders(w)) <= Len(headers)
          => (result.status = Complete /\ method = <<GET>>)
    /\ (Returned("parse") /\ wire = ReqBadMethod /\ result.len >= 2)
       => (result.status = Err /\ result.reason = InvalidMethod /\ method = <<>>)
    /\ (Returned("parse") /\ wire = ReqEmptyMethod /\ result.len >= 1)
       => (result.status = Err /\ result.reason = InvalidMethod /\ method = <<>>)

----------------------------------------------------------------------------
(* The answers of the four classification functions for the last byte      *)
(* classified.                                                             *)
Classified == class # <<>>
Cls == class[1]

InvalidHeaderValue == "invalid header value"

(* C11, the table: is_header_value_token rejects exactly 0x00-0x08,        *)
(* 0x0A-0x1F and 0x7F.                                                     *)
C11_HeaderValueTable ==
    Classified =>
        (Cls.value <=> Cls.byte \notin ((0..8) \cup (10..31) \cup {127}))

C11_HeaderValueTableWitness ==
    Classified /\ Cls.byte \in 128..255 /\ Cls.value

(* C11: header-value classification accepts exactly tab, 0x20-0x7E and     *)
(* 0x80-0xFF; a header value of high bytes is recorded as the input bytes  *)
(* and a header value with a control byte other than tab is a definitive   *)
(* failure.                                                                *)
C11_HeaderValueBytes ==
    /\ C11_HeaderValueTable
    /\ (ParsedWhole(ReqHighByteValue) /\ Len(headers) >= 1)
       => (result.status = Complete
           /\ headers[1] = [name |-> <<72>>, value |-> <<233>>])
    /\ ParsedWhole(ReqCtlValue)
       => (result.status = Err /\ result.reason = InvalidHeaderValue)

(* C12: for all 256 byte values is_method_token(b) equals TOKEN_MAP[b],    *)
(* and so equals is_header_name_token(b).                                  *)
C12_MethodTokenIsTableLookup ==
    Classified =>
        (Cls.method = TOKEN_MAP[Cls.byte] /\ Cls.method = Cls.name)

(* An uppercase letter, answered by the direct comparison, was classified. *)
C12_Witness ==
    Classified /\ Cls.byte \in 65..90 /\ Cls.method

(* C20: space, `\r` and `\n` are rejected by the token table and by the    *)
(* URI table, `:` by the token table, `\r`, `\n` and 0x7F by the           *)
(* header-value table; and header-name token implies URI byte implies      *)
(* header-value byte, for all 256 byte values.                             *)
C20_TablesExcludeDelimiters ==
    Classified =>
        /\ Cls.byte \in {SP, CR, LF} => (~Cls.method /\ ~Cls.name /\ ~Cls.uri)
        /\ Cls.byte = 58 => (~Cls.name /\ ~Cls.method)
        /\ Cls.byte \in {CR, LF, 127} => ~Cls.value
        /\ Cls.name => Cls.uri
        /\ Cls.uri => Cls.value

(* The space was classified: a header-value byte that ends a method and a  *)
(* path.                                                                   *)
C20_Witness ==
    Classified /\ Cls.byte = SP /\ Cls.value /\ ~Cls.uri /\ ~Cls.name

----------------------------------------------------------------------------
(* The bytes of the scanned buffer from the position the scan started at.  *)
Rest == SubSeq(ScannedBuf, result.from + 1, result.len)

(* Length of the longest run of blank-line terminators (`\n` or `\r\n`)    *)
(* at the head of s.                                                       *)
RECURSIVE BlankRunLen(_)
BlankRunLen(s) ==
    IF s = <<>> THEN 0
    ELSE IF s[1] = LF THEN 1 + BlankRunLen(Tail(s))
    ELSE IF s[1] = CR /\ Len(s) >= 2 /\ s[2] = LF
         THEN 2 + BlankRunLen(Tail(Tail(s)))
    ELSE 0

(* Length of the longest run of spaces at the head of s.                   *)
RECURSIVE SpaceRunLen(_)
SpaceRunLen(s) ==
    IF s # <<>> /\ s[1] = SP THEN 1 + SpaceRunLen(Tail(s)) ELSE 0

(* C13: skip_empty_lines started at p consumes the longest run of blank-   *)
(* line terminators at p; it returns Complete exactly when the run is      *)
(* followed by a byte that is neither `\r` nor `\n`, with the cursor and   *)
(* the slice mark at that byte; it returns Partial when the buffer ends    *)
(* at the end of the run.                                                  *)
C13_SkipEmptyLinesRun ==
    Returned("skip_empty_lines") =>
        LET r == BlankRunLen(Rest)
        IN  /\ result.pos >= result.from + r
            /\ result.status = Complete
               <=> (r < Len(Rest) /\ Rest[r + 1] \notin {CR, LF})
            /\ result.status = Complete
               => (result.pos = result.from + r /\ result.start = result.pos)
            /\ r = Len(Rest)
               => (result.status = Partial /\ result.pos = result.len)

(* Complete after a run of blank lines, started at a position after the    *)
(* mark.                                                                   *)
C13_Witness ==
    /\ Returned("skip_empty_lines")
    /\ result.status = Complete
    /\ result.from > 0
    /\ result.pos > result.from
    /\ result.start = result.pos

(* C14: in skip_empty_lines a `\r` after the run of blank lines gives      *)
(* Partial when the buffer ends directly after it and the failure NewLine  *)
(* when a byte other than `\n` follows it, whatever comes after; the scan  *)
(* fails in no other case.                                                 *)
C14_CRNeedsLF ==
    Returned("skip_empty_lines") =>
        LET r == BlankRunLen(Rest)
            cr == r < Len(Rest) /\ Rest[r + 1] = CR
        IN  /\ (cr /\ Len(Rest) = r + 1) => result.status = Partial
            /\ (cr /\ Len(Rest) > r + 1)
               => (result.status = Err /\ result.reason = NewLine)
            /\ result.status = Err => (cr /\ Len(Rest) > r + 1)

(* The failure on a `\r` that comes after a blank line.                    *)
C14_Witness ==
    /\ Returned("skip_empty_lines")
    /\ result.status = Err
    /\ result.reason = NewLine
    /\ result.pos >= result.from + 3
    /\ buf[result.pos - 1] = CR

(* C15: skip_spaces started at p consumes exactly the maximal run of       *)
(* spaces at p; Complete, with cursor and mark at the next byte, when a    *)
(* byte follows the run; Partial when the buffer ends after the run;       *)
(* never a failure.                                                        *)
C15_SkipSpacesRun ==
    Returned("skip_spaces") =>
        LET r == SpaceRunLen(Rest)
        IN  /\ result.status \in {Complete, Partial}
            /\ result.pos = result.from + r
            /\ r < Len(Rest)
               => (result.status = Complete /\ result.start = result.pos)
            /\ r = Len(Rest) => result.status = Partial

(* Complete at a tab after a space.                                        *)
C15_Witness ==
    /\ Returned("skip_spaces")
    /\ result.status = Complete
    /\ result.pos > result.from
    /\ buf[result.pos + 1] = TAB

----------------------------------------------------------------------------
(* C16: the cursor never exceeds the buffer length, and a step of a scan   *)
(* advances the cursor only from a position at which peek returned a byte  *)
(* and never beyond the end of the buffer.                                 *)
C16_CursorInBounds ==
    /\ [](pos <= Len(buf) /\ start <= pos)
    /\ [][ (pc # "idle" /\ pos' > pos)
           => (Peek(buf, pos) # <<>> /\ pos' <= Len(buf)) ]_vars

(* A running scan whose cursor has advanced to the end of the buffer.      *)
C16_Witness ==
    /\ pc # "idle"
    /\ pos > from
    /\ pos = Len(buf)

(* C17, the two skip scans: every iteration either returns or strictly     *)
(* advances the cursor within the buffer, and every scan that has started  *)
(* returns with exactly one of Complete, Partial or a failure.             *)
C17_ScansTerminate ==
    /\ [][ (pc # "idle" /\ pc' # "idle") => (pos < pos' /\ pos' <= Len(buf)) ]_vars
    /\ [](pc # "idle"
          => <>(pc = "idle" /\ result.status \in {Complete, Partial, Err}))

(* A scan that returned after at least two iterations.                     *)
C17_ScansTerminateWitness ==
    /\ pc = "idle"
    /\ result.op \in {"skip_empty_lines", "skip_spaces"}
    /\ result.pos >= result.from + 2
    /\ result.status \in {Complete, Partial, Err}

(* C17: every call of skip_empty_lines, skip_spaces and parse terminates   *)
(* with exactly one of Complete, Partial or a definitive failure, each     *)
(* loop iteration returning or strictly advancing the cursor.              *)
C17_CallsTerminate ==
    /\ C17_ScansTerminate
    /\ [](result.op \in {"skip_empty_lines", "skip_spaces", "parse"}
          => result.status \in {Complete, Partial, Err})

(* C19: a terminal outcome never changes as the buffer grows: once an      *)
(* operation started at some position has returned Complete (or a          *)
(* failure), every later run of it from the same position on the grown     *)
(* buffer returns the same outcome with the same cursor position; only     *)
(* Partial is followed by another outcome.                                 *)
C19_OutcomesMonotone ==
    [][ (result.status \in {Complete, Err} /\ result'.op = result.op
            /\ result'.from = result.from)
        => (/\ result'.status = result.status
            /\ result'.reason = result.reason
            /\ result'.pos = result.pos
            /\ (result.status = Complete => result'.start = result.pos)) ]_vars

(* A Complete scan whose buffer reaches beyond the byte that ended it: the *)
(* scan of the shorter buffer was Complete already.                        *)
C19_Witness ==
    /\ pc = "idle"
    /\ result.op \in {"skip_empty_lines", "skip_spaces"}
    /\ result.status = Complete
    /\ result.pos > result.from
    /\ result.pos + 1 < result.len

(* C18: a bare `\n` is accepted wherever `\r\n` is: the request with both  *)
(* of its `\r\n` replaced by `\n` parses to Complete with the same         *)
(* method, path and version and a consumed count smaller by two.           *)
C18_BareLFAccepted ==
    ParsedWhole(ReqBareLF)
    => /\ result.status = Complete
       /\ result.pos = Len(ReqPlain) - 2
       /\ method = <<GET>> /\ path = <<Slash>> /\ version = <<1>>
====
